---- MODULE Spec2Model ----
(***************************************************************************)
(* Model of GraphicsWin32/src/main.cpp: a Win32 window whose window        *)
(* procedure (MainWindow::HandleMessage) owns a Direct2D factory, a        *)
(* render target, a brush and the ellipse it paints.                       *)
(*                                                                         *)
(* The program is single threaded: every message is handled to completion  *)
(* before the next one is delivered, so each handler is one action.  The   *)
(* results of the operating-system and Direct2D calls (HRESULTs, the size  *)
(* of the client area, the DPI) are the inputs of the actions.             *)
(***************************************************************************)
EXTENDS Integers, Sequences, FiniteSets

VARIABLES
    pFactory,       \* MainWindow::pFactory
    pRenderTarget,  \* MainWindow::pRenderTarget
    pBrush,         \* MainWindow::pBrush
    ellipse,        \* MainWindow::ellipse
    rtSize,         \* pixel size held by the render target object
    dpi,            \* DPI the render target converts pixels to DIPs with
    clientSize,     \* client rectangle of the window (GetClientRect)
    updateRegion,   \* TRUE when the window's update region is not empty
    liveFactory,    \* factories created and not yet released
    liveRT,         \* render targets created and not yet released
    liveBrush,      \* brushes created and not yet released
    laidOut,        \* TRUE once CalculateLayout has assigned ellipse
    nullCall,       \* TRUE once a method was called through a NULL pointer
    calls,          \* API calls made by the handler that ran last
    drawn,          \* arguments of the FillEllipse call of that handler
    hrCreate,       \* what CreateGraphicsResources returned in that handler
    hrEndDraw,      \* what EndDraw returned in that handler
    lResult,        \* value the WM_CREATE handler returned
    hwnd,           \* "none", "alive", or "destroyed" once WM_DESTROY ran
    quitPosted,     \* PostQuitMessage has been called
    pc,             \* position of wWinMain
    uMsg            \* the message (or wWinMain step) that ran last

vars == <<pFactory, pRenderTarget, pBrush, ellipse, rtSize, dpi, clientSize,
          updateRegion, liveFactory, liveRT, liveBrush, laidOut, nullCall,
          calls, drawn, hrCreate, hrEndDraw, lResult, hwnd, quitPosted, pc,
          uMsg>>

----------------------------------------------------------------------------
\* Bounds of the model.

\* Client-area widths and heights range over 0 .. MaxDim pixels.
MaxDim == 2

----------------------------------------------------------------------------
\* Values.

NULL == "NULL"

S_OK == 0

D2DERR_RECREATE_TARGET == -2003238900

\* The HRESULTs a call can return, as signed 32-bit values: S_OK or E_FAIL
\* (0x80004005), and for EndDraw also D2DERR_RECREATE_TARGET (0x8899000C).
HResults == {S_OK, -2147467259}

EndDrawResults == HResults \cup {D2DERR_RECREATE_TARGET}

SUCCEEDED(hr) == hr >= 0

FAILED(hr) == hr < 0

Dims == 0 .. MaxDim

SizeU(w, h) == [width |-> w, height |-> h]

Sizes == {SizeU(w, h) : w \in Dims, h \in Dims}

\* A float is represented exactly by the integer 4 * value: every float the
\* program computes from a pixel size is a multiple of 1/4.
ToFloat(n) == 4 * n

\* float / 2
Half(f) == f \div 2

Point2F(x, y) == [x |-> x, y |-> y]

Ellipse(center, rx, ry) == [point |-> center, radiusX |-> rx, radiusY |-> ry]

\* The larger of two values (used by CalculateLayoutMax).
max(a, b) == IF a < b THEN b ELSE a

\* The min macro of windows.h: (((a) < (b)) ? (a) : (b)).
min(a, b) == IF a < b THEN a ELSE b

\* DPI settings of the display (100% and 200% scaling).
DpiSet == {96, 192}

\* ID2D1RenderTarget::GetSize: the pixel size converted to DIPs.
GetSize(m) ==
    [width  |-> (ToFloat(m.rtSize.width) * 96) \div m.dpi,
     height |-> (ToFloat(m.rtSize.height) * 96) \div m.dpi]

\* MainWindow() does not initialise ellipse: its value is indeterminate.
Indeterminate ==
    {Ellipse(Point2F(g, g), g, g) : g \in {0, 3}}

----------------------------------------------------------------------------
\* The state the handlers read and write, as one record.

This ==
    [pFactory |-> pFactory, pRenderTarget |-> pRenderTarget, pBrush |-> pBrush,
     ellipse |-> ellipse, rtSize |-> rtSize, dpi |-> dpi,
     clientSize |-> clientSize, updateRegion |-> updateRegion,
     liveFactory |-> liveFactory, liveRT |-> liveRT, liveBrush |-> liveBrush,
     laidOut |-> laidOut, nullCall |-> nullCall, calls |-> <<>>,
     drawn |-> <<>>, hrCreate |-> S_OK, hrEndDraw |-> S_OK,
     quitPosted |-> quitPosted]

Commit(m) ==
    /\ pFactory' = m.pFactory
    /\ pRenderTarget' = m.pRenderTarget
    /\ pBrush' = m.pBrush
    /\ ellipse' = m.ellipse
    /\ rtSize' = m.rtSize
    /\ dpi' = m.dpi
    /\ clientSize' = m.clientSize
    /\ updateRegion' = m.updateRegion
    /\ liveFactory' = m.liveFactory
    /\ liveRT' = m.liveRT
    /\ liveBrush' = m.liveBrush
    /\ laidOut' = m.laidOut
    /\ nullCall' = m.nullCall
    /\ calls' = m.calls
    /\ drawn' = m.drawn
    /\ hrCreate' = m.hrCreate
    /\ hrEndDraw' = m.hrEndDraw
    /\ quitPosted' = m.quitPosted

Call(m, name) == [m EXCEPT !.calls = Append(@, name)]

----------------------------------------------------------------------------
\* Faulty variant of SafeRelease: the pointer is not set to NULL.
SafeReleaseNoNull(m, field, live) ==
    IF m[field] # NULL
    THEN [Call(m, "Release") EXCEPT ![live] = @ - 1]
    ELSE m

\* SafeRelease(&p): release the object p points to and set p to NULL.
\* field names the pointer, live the count of live objects of its kind.
SafeRelease(m, field, live) ==
    IF m[field] # NULL
    THEN [Call(m, "Release") EXCEPT ![live] = @ - 1, ![field] = NULL]
    ELSE m

\* Faulty variant of CalculateLayout: the larger half-extent as radius.
CalculateLayoutMax(m) ==
    IF m.pRenderTarget # NULL
    THEN LET size == GetSize(m)
             x == Half(size.width)
             y == Half(size.height)
             radius == max(x, y)
         IN  [Call(m, "GetSize") EXCEPT
                 !.ellipse = Ellipse(Point2F(x, y), radius, radius),
                 !.laidOut = TRUE]
    ELSE m

\* MainWindow::CalculateLayout
CalculateLayout(m) ==
    IF m.pRenderTarget # NULL
    THEN LET size == GetSize(m)
             x == Half(size.width)
             y == Half(size.height)
             radius == min(x, y)
         IN  [Call(m, "GetSize") EXCEPT
                 !.ellipse = Ellipse(Point2F(x, y), radius, radius),
                 !.laidOut = TRUE]
    ELSE m

\* pFactory->CreateHwndRenderTarget(..., size, &pRenderTarget) returning hr
CreateHwndRenderTarget(m, size, hr) ==
    LET c == [Call(m, "CreateHwndRenderTarget") EXCEPT
                 !.nullCall = @ \/ m.pFactory = NULL]
    IN  IF SUCCEEDED(hr)
        THEN [c EXCEPT !.pRenderTarget = "target", !.rtSize = size,
                       !.liveRT = @ + 1]
        ELSE [c EXCEPT !.pRenderTarget = NULL]

\* pRenderTarget->CreateSolidColorBrush(color, &pBrush) returning hr
CreateSolidColorBrush(m, hr) ==
    LET c == Call(m, "CreateSolidColorBrush")
    IN  IF SUCCEEDED(hr)
        THEN [c EXCEPT !.pBrush = "brush", !.liveBrush = @ + 1]
        ELSE [c EXCEPT !.pBrush = NULL]

\* Faulty variant of CreateGraphicsResources: no test of pRenderTarget.
CreateGraphicsResourcesEager(m, hrRT, hrBrush) ==
    LET rc == Call(m, "GetClientRect")
        t  == CreateHwndRenderTarget(rc, rc.clientSize, hrRT)
    IN  IF SUCCEEDED(hrRT)
        THEN LET b == CreateSolidColorBrush(t, hrBrush)
             IN  IF SUCCEEDED(hrBrush)
                 THEN [CalculateLayout(b) EXCEPT !.hrCreate = hrBrush]
                 ELSE [b EXCEPT !.hrCreate = hrBrush]
        ELSE [t EXCEPT !.hrCreate = hrRT]

\* MainWindow::CreateGraphicsResources; the result's hrCreate is its return
\* value.  hrRT and hrBrush are what the two creation calls return.
CreateGraphicsResources(m, hrRT, hrBrush) ==
    IF m.pRenderTarget = NULL
    THEN LET rc == Call(m, "GetClientRect")
             t  == CreateHwndRenderTarget(rc, rc.clientSize, hrRT)
         IN  IF SUCCEEDED(hrRT)
             THEN LET b == CreateSolidColorBrush(t, hrBrush)
                  IN  IF SUCCEEDED(hrBrush)
                      THEN [CalculateLayout(b) EXCEPT !.hrCreate = hrBrush]
                      ELSE [b EXCEPT !.hrCreate = hrBrush]
             ELSE [t EXCEPT !.hrCreate = hrRT]
    ELSE [m EXCEPT !.hrCreate = S_OK]

\* Faulty variant of DiscardGraphicsResources: the brush is kept.
DiscardGraphicsResourcesKeepBrush(m) ==
    SafeRelease(m, "pRenderTarget", "liveRT")

\* MainWindow::DiscardGraphicsResources
DiscardGraphicsResources(m) ==
    SafeRelease(SafeRelease(m, "pRenderTarget", "liveRT"),
                "pBrush", "liveBrush")

\* BeginPaint(m_hwnd, &ps) validates the update region.
BeginPaint(m) == [Call(m, "BeginPaint") EXCEPT !.updateRegion = FALSE]

\* pRenderTarget->FillEllipse(ellipse, pBrush).  The call returns nothing:
\* an error it runs into (a NULL brush included) shows only in what EndDraw
\* returns, which is an input of OnPaint.
FillEllipse(m) ==
    [Call(m, "FillEllipse") EXCEPT
        !.nullCall = @ \/ m.pRenderTarget = NULL,
        !.drawn = <<[ellipse |-> m.ellipse, brush |-> m.pBrush,
                     target |-> m.pRenderTarget, size |-> m.rtSize,
                     laidOut |-> m.laidOut]>>]

\* pRenderTarget->EndDraw() returning hr
EndDraw(m, hr) == [Call(m, "EndDraw") EXCEPT !.hrEndDraw = hr]

\* Faulty variant of OnPaint: no EndPaint after discarding the resources.
OnPaintEarlyReturn(m, hrRT, hrBrush, hrEnd) ==
    LET c == CreateGraphicsResources(m, hrRT, hrBrush)
    IN  IF SUCCEEDED(c.hrCreate)
        THEN LET b == Call(Call(BeginPaint(c), "BeginDraw"), "Clear")
                 e == EndDraw(FillEllipse(b), hrEnd)
             IN  IF FAILED(e.hrEndDraw) \/ e.hrEndDraw = D2DERR_RECREATE_TARGET
                 THEN DiscardGraphicsResources(e)
                 ELSE Call(e, "EndPaint")
        ELSE c

\* MainWindow::OnPaint.  hrRT and hrBrush are what the creation calls return
\* when they are made, hrEnd what EndDraw returns.
OnPaint(m, hrRT, hrBrush, hrEnd) ==
    LET c == CreateGraphicsResources(m, hrRT, hrBrush)
    IN  IF SUCCEEDED(c.hrCreate)
        THEN LET b == Call(Call(BeginPaint(c), "BeginDraw"), "Clear")
                 e == EndDraw(FillEllipse(b), hrEnd)
                 d == IF FAILED(e.hrEndDraw)
                         \/ e.hrEndDraw = D2DERR_RECREATE_TARGET
                      THEN DiscardGraphicsResources(e)
                      ELSE e
             IN  Call(d, "EndPaint")
        ELSE c

\* Faulty variant of Resize: no InvalidateRect.
ResizeNoInvalidate(m, hr) ==
    IF m.pRenderTarget # NULL
    THEN LET rc == Call(Call(m, "GetClientRect"), "Resize")
             r  == IF SUCCEEDED(hr)
                   THEN [rc EXCEPT !.rtSize = rc.clientSize]
                   ELSE rc
         IN  CalculateLayout(r)
    ELSE m

\* MainWindow::Resize.  hr is what pRenderTarget->Resize returns; the code
\* ignores it, and a render target whose Resize failed keeps its size.
Resize(m, hr) ==
    IF m.pRenderTarget # NULL
    THEN LET rc == Call(Call(m, "GetClientRect"), "Resize")
             r  == IF SUCCEEDED(hr)
                   THEN [rc EXCEPT !.rtSize = rc.clientSize]
                   ELSE rc
         IN  [Call(CalculateLayout(r), "InvalidateRect") EXCEPT
                 !.updateRegion = TRUE]
    ELSE m

----------------------------------------------------------------------------
\* MainWindow::HandleMessage, one action per case of the switch.

\* D2D1CreateFactory(..., &pFactory) returning hr
D2D1CreateFactory(m, hr) ==
    LET c == Call(m, "D2D1CreateFactory")
    IN  IF SUCCEEDED(hr)
        THEN [c EXCEPT !.pFactory = "factory", !.liveFactory = @ + 1]
        ELSE [c EXCEPT !.pFactory = NULL]

\* Faulty variant of WmCreateResult: 0 also when the factory failed.
WmCreateResultZero(hr) == 0

\* The value the WM_CREATE case returns.
WmCreateResult(hr) == IF FAILED(hr) THEN -1 ELSE 0

\* case WM_CREATE, sent by CreateWindowEx inside BaseWindow::Create
WM_CREATE ==
    /\ pc = "Create"
    /\ hwnd = "none"
    /\ \E hr \in HResults :
          /\ Commit(D2D1CreateFactory(This, hr))
          /\ lResult' = WmCreateResult(hr)
    /\ hwnd' = "alive"
    /\ pc' = "CreateWindowEx"
    /\ uMsg' = "WM_CREATE"

\* case WM_DESTROY.  The window is destroyed when DefWindowProc handles
\* WM_CLOSE in the message loop, or by CreateWindowEx when WM_CREATE
\* returned -1.
WM_DESTROY ==
    /\ hwnd = "alive"
    /\ \/ pc = "GetMessage"
       \/ pc = "CreateWindowEx" /\ lResult = -1
    /\ LET d == DiscardGraphicsResources(This)
           f == SafeRelease(d, "pFactory", "liveFactory")
       IN  Commit([Call(f, "PostQuitMessage") EXCEPT !.quitPosted = TRUE])
    /\ hwnd' = "destroyed"
    /\ uMsg' = "WM_DESTROY"
    /\ UNCHANGED <<lResult, pc>>

\* case WM_PAINT, generated by GetMessage while the update region is not
\* empty.
WM_PAINT ==
    /\ hwnd = "alive"
    /\ pc = "GetMessage"
    /\ updateRegion
    /\ uMsg' = "WM_PAINT"
    /\ UNCHANGED <<lResult, hwnd, pc>>
    /\ \E hrRT \in HResults, hrBrush \in HResults, hrEnd \in EndDrawResults :
          Commit(OnPaint(This, hrRT, hrBrush, hrEnd))

\* case WM_SIZE, sent when the client area has taken the size <<w, h>>.
WM_SIZE ==
    /\ hwnd = "alive"
    /\ lResult = 0
    /\ pc \in {"CreateWindowEx", "ShowWindow", "GetMessage"}
    /\ \E size \in Sizes, hr \in HResults :
          Commit(Resize([This EXCEPT !.clientSize = size], hr))
    /\ uMsg' = "WM_SIZE"
    /\ UNCHANGED <<lResult, hwnd, pc>>

----------------------------------------------------------------------------
\* wWinMain

\* BaseWindow::Create returns FALSE when CreateWindowEx returned no window,
\* which is what it does when WM_CREATE returned -1.
Create(result) == result # -1

\* if (!win.Create(...)) return 0;
WinMainCreate ==
    /\ pc = "CreateWindowEx"
    /\ IF Create(lResult)
       THEN /\ pc' = "ShowWindow"
            /\ hwnd' = hwnd
       ELSE /\ pc' = "return"
            /\ hwnd' = IF hwnd = "alive" THEN "none" ELSE hwnd
    /\ Commit(This)
    /\ uMsg' = "Create"
    /\ UNCHANGED lResult

\* ShowWindow(win.Window(), nCmdShow): the window becomes visible and its
\* client area needs painting.
ShowWindow ==
    /\ pc = "ShowWindow"
    /\ Commit([Call(This, "ShowWindow") EXCEPT !.updateRegion = TRUE])
    /\ pc' = "GetMessage"
    /\ uMsg' = "ShowWindow"
    /\ UNCHANGED <<lResult, hwnd>>

\* While the message loop runs the system itself may invalidate the client
\* area (the window is uncovered, restored, ...).
SystemInvalidate ==
    /\ pc = "GetMessage"
    /\ hwnd = "alive"
    /\ ~updateRegion
    /\ Commit([This EXCEPT !.updateRegion = TRUE])
    /\ uMsg' = "Invalidate"
    /\ UNCHANGED <<lResult, hwnd, pc>>

\* GetMessage returns 0 on the quit message and wWinMain returns.
WinMainReturn ==
    /\ pc = "GetMessage"
    /\ quitPosted
    /\ Commit(This)
    /\ pc' = "return"
    /\ uMsg' = "WM_QUIT"
    /\ UNCHANGED <<lResult, hwnd>>

----------------------------------------------------------------------------
\* MainWindow win; at the start of wWinMain.
Init ==
    /\ pFactory = NULL
    /\ pRenderTarget = NULL
    /\ pBrush = NULL
    /\ ellipse \in Indeterminate
    /\ rtSize = SizeU(0, 0)
    /\ dpi \in DpiSet
    /\ clientSize \in Sizes
    /\ updateRegion = FALSE
    /\ liveFactory = 0
    /\ liveRT = 0
    /\ liveBrush = 0
    /\ laidOut = FALSE
    /\ nullCall = FALSE
    /\ calls = <<>>
    /\ drawn = <<>>
    /\ hrCreate = S_OK
    /\ hrEndDraw = S_OK
    /\ lResult = 0
    /\ hwnd = "none"
    /\ quitPosted = FALSE
    /\ pc = "Create"
    /\ uMsg = "none"

Next ==
    \/ WM_CREATE
    \/ WM_DESTROY
    \/ WM_PAINT
    \/ WM_SIZE
    \/ WinMainCreate
    \/ ShowWindow
    \/ SystemInvalidate
    \/ WinMainReturn

Spec == Init /\ [][Next]_vars

\* GetMessage synthesises WM_PAINT while the update region is not empty and
\* no other message is waiting: a paint that stays pending is dispatched.
\* PaintDispatch is the step that delivers WM_PAINT (under Next, a step of
\* the WM_PAINT action); nothing is assumed once the window is destroyed.
PaintDispatch ==
    /\ hwnd = "alive"
    /\ pc = "GetMessage"
    /\ updateRegion
    /\ uMsg' = "WM_PAINT"

FairSpec == Spec /\ WF_uMsg(PaintDispatch)

----------------------------------------------------------------------------
\* CalculateLayout on its own: applied once to any render target (or none)
\* and any previous ellipse.

LayoutInit ==
    /\ pFactory = "factory"
    /\ pRenderTarget \in {NULL, "target"}
    /\ pBrush = pRenderTarget
    /\ ellipse \in Indeterminate
    /\ rtSize \in Sizes
    /\ dpi \in DpiSet
    /\ clientSize = rtSize
    /\ updateRegion = FALSE
    /\ liveFactory = 1
    /\ liveRT = IF pRenderTarget = NULL THEN 0 ELSE 1
    /\ liveBrush = 0
    /\ laidOut = FALSE
    /\ nullCall = FALSE
    /\ calls = <<>>
    /\ drawn = <<>>
    /\ hrCreate = S_OK
    /\ hrEndDraw = S_OK
    /\ lResult = 0
    /\ hwnd = "alive"
    /\ quitPosted = FALSE
    /\ pc = "CalculateLayout"
    /\ uMsg = "none"

LayoutStep ==
    /\ pc = "CalculateLayout"
    /\ Commit(CalculateLayout(This))
    /\ pc' = "done"
    /\ uMsg' = "CalculateLayout"
    /\ UNCHANGED <<lResult, hwnd>>

LayoutNext == LayoutStep

SpecLayout == LayoutInit /\ [][LayoutNext]_vars

----------------------------------------------------------------------------
\* Properties.

Has(name) == \E i \in DOMAIN calls : calls[i] = name

Count(name) == Cardinality({i \in DOMAIN calls : calls[i] = name})

Index(name) == CHOOSE i \in DOMAIN calls : calls[i] = name

\* The ellipse inscribed in a render target of pixel size s at DPI d:
\* centre (w/2, h/2), both radii the smaller of w/2 and h/2, where
\* (w, h) is the size in DIPs.
DipWidth(s, d) == (4 * s.width * 96) \div d

DipHeight(s, d) == (4 * s.height * 96) \div d

Inscribed(e, s, d) ==
    /\ 2 * e.point.x = DipWidth(s, d)
    /\ 2 * e.point.y = DipHeight(s, d)
    /\ e.radiusX = e.radiusY
    /\ e.radiusX <= e.point.x
    /\ e.radiusX <= e.point.y
    /\ e.radiusX = e.point.x \/ e.radiusX = e.point.y

\* Every action sets uMsg to its own name, so a step that changes the state
\* and ends with uMsg = "WM_PAINT" is a step of the WM_PAINT handler.
PaintStep == uMsg' = "WM_PAINT"

SizeStep == uMsg' = "WM_SIZE"

Drew == drawn # <<>>

Fill == drawn[1]

----------------------------------------------------------------------------
\* C1: device-dependent resources are created lazily.  WM_CREATE and WM_SIZE
\* create no render target and no brush; the creation calls are made only
\* by the WM_PAINT handler and only when pRenderTarget was NULL, the brush
\* after the render target; a WM_PAINT that finds pRenderTarget non-NULL
\* creates nothing, leaves pRenderTarget, pBrush and ellipse as they were
\* for the drawing calls and has CreateGraphicsResources return S_OK; and at
\* most one render target and one brush are live at any time.
C1_OneLive ==
    /\ liveRT \in {0, 1}
    /\ liveBrush \in {0, 1}
    /\ liveRT = 1 <=> pRenderTarget # NULL
    /\ liveBrush = 1 <=> pBrush # NULL
    /\ (Has("CreateHwndRenderTarget") \/ Has("CreateSolidColorBrush"))
          => uMsg = "WM_PAINT"
    /\ Has("CreateSolidColorBrush")
          => /\ Has("CreateHwndRenderTarget")
             /\ Index("CreateHwndRenderTarget") < Index("CreateSolidColorBrush")
    /\ Count("CreateHwndRenderTarget") <= 1
    /\ Count("CreateSolidColorBrush") <= 1

C1_PaintStep ==
    PaintStep =>
       /\ Has("CreateHwndRenderTarget")' => pRenderTarget = NULL
       /\ pRenderTarget # NULL =>
             /\ ~Has("CreateHwndRenderTarget")'
             /\ ~Has("CreateSolidColorBrush")'
             /\ ~Has("GetSize")'
             /\ hrCreate' = S_OK
             /\ Drew'
             /\ Fill'.target = pRenderTarget
             /\ Fill'.brush = pBrush
             /\ Fill'.ellipse = ellipse
             /\ Fill'.size = rtSize
             /\ ellipse' = ellipse
             /\ liveRT' <= liveRT
             /\ liveBrush' <= liveBrush

\* C1: lazy creation, as the invariant C1_OneLive and the property
\* C1_PaintStep of every WM_PAINT step.
C1_Lazy == []C1_OneLive /\ [][C1_PaintStep]_vars

\* C1 witness: a WM_PAINT that found the render target present and drew
\* with it without creating anything.
C1_Witness ==
    /\ uMsg = "WM_PAINT"
    /\ Drew
    /\ ~Has("CreateHwndRenderTarget")
    /\ pRenderTarget # NULL
    /\ pBrush # NULL

\* C2: when EndDraw returns a failure code (D2DERR_RECREATE_TARGET
\* included) the WM_PAINT handler leaves pRenderTarget and pBrush NULL with
\* both objects released; when EndDraw succeeds both are what they were for
\* the drawing calls; and a WM_PAINT that starts with pRenderTarget NULL and
\* whose creation calls succeed creates a render target and a brush and
\* computes the layout from the client size before it draws.
C2_PaintStep ==
    PaintStep =>
       /\ (Drew' /\ FAILED(hrEndDraw')) =>
             /\ pRenderTarget' = NULL
             /\ pBrush' = NULL
             /\ liveRT' = 0
             /\ liveBrush' = 0
       /\ (Drew' /\ SUCCEEDED(hrEndDraw')) =>
             /\ pRenderTarget' = Fill'.target
             /\ pBrush' = Fill'.brush
             /\ pRenderTarget' # NULL
             /\ liveRT' = 1
             /\ ~Has("Release")'
       /\ (pRenderTarget = NULL /\ SUCCEEDED(hrCreate')) =>
             /\ liveRT = 0
             /\ Has("CreateHwndRenderTarget")'
             /\ Has("CreateSolidColorBrush")'
             /\ Has("GetSize")'
             /\ Index("GetSize")' < Index("FillEllipse")'
             /\ Drew'
             /\ Fill'.target # NULL
             /\ Fill'.brush # NULL
             /\ Fill'.size = clientSize
             /\ Inscribed(Fill'.ellipse, clientSize, dpi)

\* C2: discard on a failed EndDraw and recreation by a later WM_PAINT, as
\* the property C2_PaintStep of every WM_PAINT step.
C2_DiscardAndRecreate == [][C2_PaintStep]_vars

\* C2 witness: a WM_PAINT whose EndDraw failed has just returned.
C2_Witness ==
    /\ uMsg = "WM_PAINT"
    /\ Drew
    /\ hrEndDraw = D2DERR_RECREATE_TARGET
    /\ Fill.brush # NULL
    /\ pRenderTarget = NULL

\* C3: once WM_DESTROY has been handled pRenderTarget, pBrush and pFactory
\* are NULL, no created object is left unreleased and the quit message has
\* been posted.
C3_ReleasedOnDestroy ==
    hwnd = "destroyed" =>
       /\ pRenderTarget = NULL
       /\ pBrush = NULL
       /\ pFactory = NULL
       /\ liveRT = 0
       /\ liveBrush = 0
       /\ liveFactory = 0
       /\ quitPosted

\* C3 witness: WM_DESTROY released a render target, a brush and the factory.
C3_Witness ==
    /\ uMsg = "WM_DESTROY"
    /\ hwnd = "destroyed"
    /\ Count("Release") = 3

\* C4: every FillEllipse call uses the ellipse inscribed in the render
\* target's current size, and that size is the client-area size of the most
\* recent resize.
C4_FillUsesCurrentLayout ==
    Drew =>
       /\ Inscribed(Fill.ellipse, Fill.size, dpi)
       /\ Fill.size = clientSize

\* C8: whenever OnPaint issues its drawing calls pRenderTarget and pBrush
\* are non-NULL and ellipse has been computed by CalculateLayout.
C8_DrawWithResources ==
    Has("FillEllipse") =>
       /\ Drew
       /\ Fill.target # NULL
       /\ Fill.brush # NULL
       /\ Fill.laidOut

C5_SizeStep ==
    SizeStep =>
       IF pRenderTarget # NULL
       THEN /\ updateRegion'
            /\ Has("InvalidateRect")'
            /\ Has("Resize")'
            /\ pRenderTarget' = pRenderTarget
            /\ Inscribed(ellipse', rtSize', dpi)
       ELSE /\ calls' = <<>>
            /\ updateRegion' = updateRegion
            /\ <<pFactory, pRenderTarget, pBrush, ellipse, rtSize>>'
                  = <<pFactory, pRenderTarget, pBrush, ellipse, rtSize>>

C5_PaintAfterSize ==
    (PaintStep /\ uMsg = "WM_SIZE" /\ pRenderTarget # NULL) =>
       /\ Drew'
       /\ Fill'.target = pRenderTarget
       /\ Fill'.size = rtSize
       /\ Inscribed(Fill'.ellipse, rtSize, dpi)

C6_LayoutStep ==
    (pc = "CalculateLayout" /\ pc' = "done") =>
       IF pRenderTarget # NULL
       THEN LET w == DipWidth(rtSize, dpi)
                h == DipHeight(rtSize, dpi)
                e == ellipse'
            IN  /\ 2 * e.point.x = w
                /\ 2 * e.point.y = h
                /\ e.radiusX = e.radiusY
                /\ 2 * e.radiusX = (IF w < h THEN w ELSE h)
                /\ 0 <= e.point.x - e.radiusX
                /\ e.point.x + e.radiusX <= w
                /\ 0 <= e.point.y - e.radiusY
                /\ e.point.y + e.radiusY <= h
                /\ w <= h => (e.point.x - e.radiusX = 0
                              /\ e.point.x + e.radiusX = w)
                /\ h <= w => (e.point.y - e.radiusY = 0
                              /\ e.point.y + e.radiusY = h)
       ELSE ellipse' = ellipse

\* C6: the layout property C6_LayoutStep of every application of
\* CalculateLayout.
C6_Layout == [][C6_LayoutStep]_vars

\* C6 witness: CalculateLayout has laid out a rectangle wider than high,
\* replacing the previous ellipse.
C6_Witness ==
    /\ pc = "done"
    /\ pRenderTarget # NULL
    /\ laidOut
    /\ rtSize.width > rtSize.height
    /\ rtSize.height > 0
    /\ ellipse.radiusX < ellipse.point.x
    /\ ellipse.radiusX = ellipse.point.y

====
